---- MODULE Spec2Model ----
(***************************************************************************)
(* Polling / notification cycle of the GitHub stars Telegram bot          *)
(* (src/src/services/polling.ts) together with the parts of the store     *)
(* (src/src/services/database.ts), of the GitHub client                   *)
(* (src/src/services/github.ts) and of the Telegram sender                *)
(* (src/src/bot/index.ts) that the cycle calls.                           *)
(*                                                                         *)
(* Node.js runs the code on one thread: a step of the model is the code   *)
(* that runs between two suspension points (an await on a collaborator's  *)
(* I/O or on the inter-batch sleep).  A promise that resolves without I/O *)
(* (an async function returning at once, Promise.all settling) continues  *)
(* in the microtask queue, before any timer or request callback, so it is *)
(* part of the step that resolved it.                                     *)
(***************************************************************************)
EXTENDS Integers, Sequences, FiniteSets, Bags, TLC

\* ---------------------------------------------------------------- bounds
NumRepos == 3
NumChats == 2
MaxStars == 2
NumInv == 2
\* collaborator calls that may fail in one run
MaxFaults == 1
\* group size of the batches; polling.ts:78 sets 10, scaled down here
batchSize == 2
\* the arrays and chunk sizes chunkArray is called with on its own
MaxLen == 4
MaxChunkSize == 3
\* the configured intervals and the minutes the timer is watched for
MaxInterval == 45
MaxClock == 125
\* the commands and messages one run receives
NumCmds == 2
\* requests to POST /poll in one run
MaxRequests == 2
\* config.bot.maxReposPerChat; config/index.ts:23 defaults to 50, scaled down
maxReposPerChat == 2

\* config/index.ts:21: the interval when POLLING_INTERVAL_MINUTES is not set
DefaultInterval == 30
\* the minute field of a cron expression ranges over 0 .. 59
MinutesPerHour == 60

Repos == 1..NumRepos
Chats == 1..NumChats
Stars == 0..MaxStars
Invs == 1..NumInv
\* values getRateLimitStatus().remaining can take
Remaining == 0..NumRepos

VARIABLES
  isPolling,          \* PollingService.isPolling
  cronJob,            \* PollingService.cronJob !== null
  repositories,       \* table repositories: id -> [stars_count, is_archived]
  star_events,        \* table star_events, in insertion order
  chat_repositories,  \* table chat_repositories: bag of rows <<chat_id, repository_id>>
  faults,             \* failures of collaborator calls so far
  inv,                \* the call frames of the runPollingCycle invocations
  obs                 \* what each invocation did (history, not program state)

\* the state of the polling cycle
cycleVars == <<isPolling, cronJob, repositories, star_events, chat_repositories, faults, inv, obs>>

VARIABLES
  arg_array,          \* the argument array of a call of chunkArray
  arg_chunkSize,      \* its argument chunkSize
  chunks,             \* its result (<<>> before the call)
  chunkReturned       \* the call has returned

chunkVars == <<arg_array, arg_chunkSize, chunks, chunkReturned>>

VARIABLES
  pollingIntervalMinutes,  \* config.bot.pollingIntervalMinutes
  clock,                   \* minutes of wall-clock time since the process started
  lastFiring,              \* the minute the cron job last fired (-1: not yet)
  gap                      \* minutes between its last two firings (0: fewer than two)

timerVars == <<pollingIntervalMinutes, clock, lastFiring, gap>>

VARIABLES
  allowedChatIds,     \* config.bot.allowedChatIds
  chats,              \* table chats: the chat ids
  cmd                 \* the call frames of the command and message handlers

botVars == <<allowedChatIds, chats, cmd>>

VARIABLES
  observeStops,       \* history is kept of the stops of the timer
  stoppedWhile,       \* history: the invocations a stop of the timer found
                      \* in their cycle
  runningTasks        \* the number of node-cron tasks started and not stopped

stopVars == <<observeStops, stoppedWhile, runningTasks>>

VARIABLES
  apiKey,             \* config.cron.apiKey ("" when CRON_API_KEY is not set)
  pollingHandler,     \* WebhookService.pollingHandler is set
  requests            \* history: the requests POST /poll has answered

httpVars == <<apiKey, pollingHandler, requests>>

VARIABLES
  github              \* stargazers_count of each repository on GitHub (-1:
                      \* not followed, GitHub may report any count)

githubVars == <<github>>

vars == <<cycleVars, chunkVars, timerVars, stopVars, botVars, httpVars, githubVars>>

\* what the polling cycle leaves alone
aside == <<chunkVars, timerVars, botVars, httpVars, githubVars>>

\* ---------------------------------------------------------------- helpers
Min(a, b) == IF a < b THEN a ELSE b

\* variant: the end index of slice is taken as inclusive
sliceInclusive(array, a, b) == SubSeq(array, a + 1, Min(b + 1, Len(array)))

\* Array.prototype.slice(a, b) on a 0-based array
slice(array, a, b) == SubSeq(array, a + 1, Min(b, Len(array)))

RECURSIVE chunkFrom(_, _, _)
chunkFrom(array, chunkSize, i) ==
  IF i < Len(array)
  THEN <<slice(array, i, i + chunkSize)>> \o chunkFrom(array, chunkSize, i + chunkSize)
  ELSE <<>>

chunkArray(array, chunkSize) == chunkFrom(array, chunkSize, 0)

\* rows of the repositories table with is_archived = false, as Repository records
RECURSIVE rowsFrom(_, _)
rowsFrom(table, id) ==
  IF id > NumRepos THEN <<>>
  ELSE (IF table[id].is_archived THEN <<>>
        ELSE <<[id |-> id, stars_count |-> table[id].stars_count]>>)
       \o rowsFrom(table, id + 1)

\* variant: the archived rows are selected as well
getAllRepositoriesArchivedToo(table) ==
  [id \in 1..NumRepos |-> [id |-> id, stars_count |-> table[id].stars_count]]

\* database.ts:107-118: select * from repositories where is_archived = false
getAllRepositories(table) == rowsFrom(table, 1)

\* variant: the update stores one star less than it was given
updateRepositoryStarsCountShort(table, repositoryId, starsCount) ==
  [table EXCEPT ![repositoryId].stars_count = starsCount - 1]

\* variant: the update leaves the row as it was
updateRepositoryStarsCountLost(table, repositoryId, starsCount) == table

\* database.ts:120-132: update repositories set stars_count where id = ...
updateRepositoryStarsCount(table, repositoryId, starsCount) ==
  [table EXCEPT ![repositoryId].stars_count = starsCount]

\* chat ids subscribed to a repository
getSubscribersForRepository(table, repositoryId) ==
  {c \in Chats : BagIn(<<c, repositoryId>>, table)}

Range(s) == {s[k] : k \in 1..Len(s)}

\* ---------------------------------------------------------------- frames
\* The frame of one runPollingCycle invocation: pc is the await it is
\* suspended at ("list" getAllRepositories, "quota" getRateLimitStatus,
\* "batch" Promise.all of the batch, "sleep", "lookup"
\* getSubscribersForRepository, "send" Promise.all of the notifications),
\* "idle" before the call and "done" once its promise has settled.
\* repositories is the snapshot of line 46, i the number of the batch being
\* processed (the code's i + 1), task[r] the await the check of r is
\* suspended at ("fetch", "update", "event"), currentStars[r] the value of
\* line 94 (-1 before it is set), eventNo the position in the loop of
\* line 168 and sending the chats whose notification has not settled.
NoFrame ==
  [pc |-> "idle",
   repositories |-> <<>>,
   i |-> 0,
   task |-> [r \in Repos |-> "none"],
   currentStars |-> [r \in Repos |-> -1],
   starChangeEvents |-> <<>>,
   eventNo |-> 0,
   sending |-> {}]

\* The history of one invocation: the collaborator calls it made and their
\* results.  fetches[r] counts the calls of getRepositoryStarCount, writes[r]
\* lists the values passed to updateRepositoryStarsCount, recorded[r] the
\* rows createStarEvent inserted, lookedUp[r] the results of
\* getSubscribersForRepository, attempts[c, r] counts the calls of
\* sendStarNotification, received holds the messages Telegram accepted and
\* sendFailed the <<chat, repository>> whose sendMessage threw; error[r] is
\* the call that threw in the check of r; threw tells that runPollingCycle
\* rejected; cleared counts the times the invocation reset isPolling; sleeps
\* counts the calls of sleep.
NoObs ==
  [entered |-> FALSE,
   skipped |-> FALSE,
   overlapped |-> FALSE,
   cleared |-> 0,
   sleeps |-> 0,
   failed |-> FALSE,
   threw |-> FALSE,
   remaining |-> -1,
   fetches |-> [r \in Repos |-> 0],
   error |-> [r \in Repos |-> ""],
   writes |-> [r \in Repos |-> <<>>],
   recorded |-> [r \in Repos |-> <<>>],
   lookedUp |-> [r \in Repos |-> <<>>],
   attempts |-> [p \in Chats \X Repos |-> 0],
   received |-> {},
   sendFailed |-> {}]

\* no call of chunkArray outside a cycle
NoChunkCall ==
  /\ arg_array = <<>>
  /\ arg_chunkSize = batchSize
  /\ chunks = <<>>
  /\ chunkReturned = FALSE

\* the timer is not watched
NoTimer ==
  /\ pollingIntervalMinutes = DefaultInterval
  /\ clock = 0
  /\ lastFiring = -1
  /\ gap = 0

Cmds == 1..NumCmds

\* The frame of one handler call: op is the handler the dispatch of
\* bot/index.ts:35-74 chose ("start", "add", "remove", or "message" for a text
\* that is no command), chat the id of the sending chat, input the text after
\* the command (kind "none": no text, "invalid": no repository reference,
\* "repo": the reference of repository repo), pc the await the handler is
\* suspended at, count the length of the subscription list it read,
\* stargazers_count and archived what GitHub returned, reply the message the
\* handler ended with ("" when it sent none).
NoCmd ==
  [pc |-> "idle",
   op |-> "",
   chat |-> 0,
   input |-> [kind |-> "none", repo |-> 0],
   count |-> -1,
   stargazers_count |-> -1,
   archived |-> FALSE,
   reply |-> ""]

\* no command is handled; every chat has its row
NoCommands ==
  /\ allowedChatIds = {}
  /\ chats = Chats
  /\ cmd = [k \in Cmds |-> NoCmd]

\* the counts on GitHub are not followed
NoGithub == github = [r \in Repos |-> -1]

\* the counts GitHub may report for repository r
Reported(r) == IF github[r] = -1 THEN Stars ELSE {github[r]}

\* no key is configured and no request has come in
NoRequests ==
  /\ apiKey = ""
  /\ pollingHandler = FALSE
  /\ requests = <<>>

\* no history of the stops is kept
NoStopHistory ==
  /\ observeStops = FALSE
  /\ stoppedWhile = {}
  /\ runningTasks = IF cronJob THEN 1 ELSE 0

\* The state after the Application constructor (setBotService has set
\* PollingService.bot, so notifySubscribers never returns for want of a bot).
\* The tables hold what the chats have set up: any subset of the repositories
\* is archived, every stored count is 1, and repository r has the chats
\* 1 .. NumChats + 1 - r as subscribers (the first has all, the last may have
\* none).
Init ==
  /\ isPolling = FALSE
  /\ cronJob = FALSE
  /\ repositories \in [Repos -> [stars_count : {1}, is_archived : BOOLEAN]]
  /\ star_events = <<>>
  /\ chat_repositories = SetToBag({p \in Chats \X Repos : p[1] + p[2] <= NumChats + 1})
  /\ faults = 0
  /\ inv = [n \in Invs |-> NoFrame]
  /\ obs = [n \in Invs |-> NoObs]
  /\ NoChunkCall
  /\ NoTimer
  /\ NoStopHistory
  /\ NoCommands
  /\ NoRequests
  /\ NoGithub



store == <<repositories, star_events, chat_repositories>>

\* the snapshot row of repository r in the frame l
repoOf(l, r) == CHOOSE row \in Range(l.repositories) : row.id = r

\* variant: a batch holds the repositories of the batches before it as well
batchOfCumulative(l, b) ==
  UNION {{row.id : row \in Range(chunkArray(l.repositories, batchSize)[a])} : a \in 1..b}

\* ids of the repositories of batch b (batches[b - 1] in the code)
batchOf(l, b) == {row.id : row \in Range(chunkArray(l.repositories, batchSize)[b])}

\* variant: every fetched value is treated as a change
starsChangedAlways(currentStars, stars_count) == TRUE

\* polling.ts:96
starsChanged(currentStars, stars_count) == currentStars # stars_count

\* variant: an event for every change, a decrease included
starsIncreasedOrNot(currentStars, stars_count) == currentStars # stars_count

\* polling.ts:108
starsIncreased(currentStars, stars_count) == currentStars > stars_count

\* variant: the gate also stops a cycle whose budget is exactly enough
quotaShortfallInclusive(remaining, length) == remaining <= length

\* variant: the gate is off by one
quotaShortfallOffByOne(remaining, length) == remaining < length - 1

\* polling.ts:67
quotaShortfall(remaining, length) == remaining < length

\* variant: the gain is taken to be the new total
StarChangeEventGainIsTotal(repo, currentStars) ==
  [repositoryId |-> repo.id,
   previousStars |-> repo.stars_count,
   currentStars |-> currentStars,
   starsGained |-> currentStars]

\* polling.ts:111-118
StarChangeEvent(repo, currentStars) ==
  [repositoryId |-> repo.id,
   previousStars |-> repo.stars_count,
   currentStars |-> currentStars,
   starsGained |-> currentStars - repo.stars_count]

\* variant: the two counts are stored the other way round
StarEventRowSwapped(repositoryId, starsCount, previousStarsCount) ==
  [repository_id |-> repositoryId,
   stars_count |-> previousStarsCount,
   previous_stars_count |-> starsCount,
   stars_gained |-> previousStarsCount - starsCount]

\* database.ts:192-197, with the generated column stars_gained of database.sql:43
StarEventRow(repositoryId, starsCount, previousStarsCount) ==
  [repository_id |-> repositoryId,
   stars_count |-> starsCount,
   previous_stars_count |-> previousStarsCount,
   stars_gained |-> starsCount - previousStarsCount]

\* variant: the gain and the total are swapped in the message
StarNotificationSwapped(chatId, repositoryId, starsGained, totalStars) ==
  [chat |-> chatId,
   repositoryId |-> repositoryId,
   gained |-> totalStars,
   total |-> starsGained]

\* bot/index.ts:135-144: what the message of sendStarNotification carries
StarNotification(chatId, repositoryId, starsGained, totalStars) ==
  [chat |-> chatId,
   repositoryId |-> repositoryId,
   gained |-> starsGained,
   total |-> totalStars]

\* variant: the event is put at the front of the list
pushFront(array, element) == <<element>> \o array

\* polling.ts:120: Array.prototype.push
push(array, element) == Append(array, element)

\* variant: a chat whose send failed is unsubscribed
subscriptionsAfterSendPruned(table, chatId, repositoryId, ok) ==
  IF ok THEN table ELSE table (-) SetToBag({<<chatId, repositoryId>>})

\* polling.ts:188-195, bot/index.ts:160-167: the catch blocks of a send only
\* log, the subscription table stays as it is
subscriptionsAfterSend(table, chatId, repositoryId, ok) == table

\* polling.ts:179: the subscribers a send is started for
notificationTargets(subscribers) == subscribers

\* ------------------------------------------------------- error handling
\* The try/catch blocks that enclose a collaborator call, innermost first.
handlers(site) ==
  CASE site \in {"getAllRepositories", "getRateLimitStatus"} ->
         <<"pollRepositories", "runPollingCycle">>
    [] site \in {"getRepositoryStarCount", "updateRepositoryStarsCount", "createStarEvent"} ->
         <<"batch.map", "pollRepositories", "runPollingCycle">>
    [] site = "getSubscribersForRepository" ->
         <<"forEvent", "runPollingCycle">>
    [] site = "sendMessage" ->
         <<"sendMessage", "sendStarNotification", "subscribers.map", "forEvent",
           "runPollingCycle">>

\* variant: every catch block logs and throws the error again
rethrowsAlways(handler) == TRUE

\* variant: the catch blocks around one send throw the error again
rethrowsSend(handler) ==
  handler \in {"sendMessage", "sendStarNotification", "subscribers.map"}

\* variant: the catch block around the check of one repository throws the
\* error again
rethrowsCheck(handler) == handler \in {"sendMessage", "batch.map"}

\* variant: the catch block around the handling of one event throws the
\* error again
rethrowsForEvent(handler) == handler \in {"sendMessage", "forEvent"}

\* a catch block that throws the error again: only bot/index.ts:129-132
rethrows(handler) == handler = "sendMessage"

\* the catch block where an error raised inside the chain ends
RECURSIVE caughtIn(_)
caughtIn(chain) ==
  IF Len(chain) = 0 THEN "uncaught"
  ELSE IF rethrows(Head(chain)) THEN caughtIn(Tail(chain))
  ELSE Head(chain)

caughtAt(site) == caughtIn(handlers(site))

\* variant: the flag is never cleared
flagAfterKept(path, flag) == flag

\* variant: the flag is cleared at the end of the try block, not in finally
flagAfterTryOnly(path, flag) == IF path = "return events" THEN FALSE ELSE flag

\* polling.ts:151-153: the value of isPolling after pollRepositories has left
\* its try block by the given path
flagAfter(path, flag) == FALSE

\* ------------------------------------------------------- control flow
\* polling.ts:91: batch.map starts the check of every repository of batch b,
\* each running up to its await of getRepositoryStarCount
startBatch(l, b) ==
  [l EXCEPT !.pc = "batch", !.i = b,
            !.task = [r \in Repos |-> IF r \in batchOf(l, b) THEN "fetch" ELSE l.task[r]]]

obsBatch(o, l, b) ==
  [o EXCEPT !.fetches = [r \in Repos |-> IF r \in batchOf(l, b) THEN o.fetches[r] + 1
                                         ELSE o.fetches[r]]]

\* variant: the fan-out replays the whole recorded history
notifyStartReplay(l, events) ==
  LET history == [k \in 1..Len(star_events) |->
                    [repositoryId |-> star_events[k].repository_id,
                     previousStars |-> star_events[k].previous_stars_count,
                     currentStars |-> star_events[k].stars_count,
                     starsGained |-> star_events[k].stars_gained]] IN
  IF Len(history) = 0
  THEN [l EXCEPT !.pc = "done", !.starChangeEvents = history]
  ELSE [l EXCEPT !.pc = "lookup", !.starChangeEvents = history, !.eventNo = 1]

\* polling.ts:156-170: notifySubscribers up to its first await
notifyStart(l, events) ==
  IF Len(events) = 0
  THEN [l EXCEPT !.pc = "done", !.starChangeEvents = events]
  ELSE [l EXCEPT !.pc = "lookup", !.starChangeEvents = events, !.eventNo = 1]

\* variant: the loop over the events goes on when the first send settles
sendsSettledAny(l) == TRUE

\* polling.ts:198: Promise.all(notificationPromises) settles when every send
\* of the event has
sendsSettled(l) == l.sending = {}

\* polling.ts:168, 206-208: the next iteration of the loop over the events
nextEvent(l) ==
  IF l.eventNo < Len(l.starChangeEvents)
  THEN [l EXCEPT !.pc = "lookup", !.eventNo = l.eventNo + 1, !.sending = {}]
  ELSE [l EXCEPT !.pc = "done", !.sending = {}]

\* polling.ts:145-153 then 214-215: pollRepositories returns the events by the
\* given path, its finally block runs, and runPollingCycle hands the events
\* to notifySubscribers
PollExit(n, l, o, events, path) ==
  /\ isPolling' = flagAfter(path, isPolling)
  /\ inv' = [inv EXCEPT ![n] = notifyStart(l, events)]
  /\ obs' = [obs EXCEPT ![n] =
       [o EXCEPT !.cleared = IF flagAfter(path, isPolling) THEN o.cleared ELSE o.cleared + 1]]

\* polling.ts:217-220: an error that no catch block inside pollRepositories or
\* notifySubscribers took ends the cycle in the catch block h
CycleAbort(n, l, o, h, inPoll) ==
  /\ isPolling' = IF inPoll THEN flagAfter("throw", isPolling) ELSE isPolling
  /\ inv' = [inv EXCEPT ![n] = [l EXCEPT !.pc = "done", !.sending = {}]]
  /\ obs' = [obs EXCEPT ![n] =
       [o EXCEPT !.threw = (h = "uncaught"),
                 !.cleared = IF inPoll /\ ~flagAfter("throw", isPolling)
                             THEN o.cleared + 1 ELSE o.cleared]]

\* variant: Promise.all of a batch never settles
batchSettledNever(l) == FALSE

\* variant: the batch loop goes on as soon as one check of the batch settles
batchSettledAny(l) == \E r \in batchOf(l, l.i) : l.task[r] = "done"

\* polling.ts:132: Promise.all(batchPromises) settles when every check of the
\* batch has, and no check rejects (each ends in its own catch block)
batchSettled(l) == \A r \in batchOf(l, l.i) : l.task[r] = "done"

\* variant: no delay between the batches
delayFollowsNever(l) == FALSE

\* polling.ts:135: i < batches.length - 1, with l.i the code's i + 1
delayFollows(l) == l.i - 1 < Len(chunkArray(l.repositories, batchSize)) - 1

\* polling.ts:132-145: the check of one repository has ended (l, o are the
\* frame and history after it); Promise.all settles with the last one, the
\* delay follows unless the batch was the last, and the loop of line 81 goes
\* on while there is a batch left
TaskSettled(n, l, o) ==
  IF ~batchSettled(l)
  THEN /\ inv' = [inv EXCEPT ![n] = l]
       /\ obs' = [obs EXCEPT ![n] = o]
       /\ UNCHANGED isPolling
  ELSE IF delayFollows(l)
       THEN /\ inv' = [inv EXCEPT ![n] = [l EXCEPT !.pc = "sleep"]]
            /\ obs' = [obs EXCEPT ![n] = [o EXCEPT !.sleeps = @ + 1]]
            /\ UNCHANGED isPolling
       ELSE IF l.i < Len(chunkArray(l.repositories, batchSize))
       THEN /\ inv' = [inv EXCEPT ![n] = startBatch(l, l.i + 1)]
            /\ obs' = [obs EXCEPT ![n] = obsBatch(o, l, l.i + 1)]
            /\ UNCHANGED isPolling
       ELSE PollExit(n, l, o, l.starChangeEvents, "return events")

\* polling.ts:123-129: a collaborator call of the check of repository r threw
TaskFailed(n, r, site) ==
  LET l == [inv[n] EXCEPT !.task[r] = "done"]
      o == [obs[n] EXCEPT !.failed = TRUE, !.error[r] = site]
      h == caughtAt(site) IN
  IF h = "batch.map" THEN TaskSettled(n, l, o)
  ELSE IF h = "pollRepositories" THEN PollExit(n, l, o, <<>>, "catch")
  ELSE CycleAbort(n, l, o, h, TRUE)

\* polling.ts:147-150: getAllRepositories or getRateLimitStatus threw
PollFailed(n, site) ==
  LET o == [obs[n] EXCEPT !.failed = TRUE]
      h == caughtAt(site) IN
  IF h = "pollRepositories" THEN PollExit(n, inv[n], o, <<>>, "catch")
  ELSE CycleAbort(n, inv[n], o, h, TRUE)

\* the outcomes of a collaborator call: TRUE it returns, FALSE it throws
Outcomes == IF faults < MaxFaults THEN BOOLEAN ELSE {TRUE}

Outcome(ok) == faults' = IF ok THEN faults ELSE faults + 1

\* ---------------------------------------------------------------- actions

\* variant: the guard never finds a cycle in progress
alreadyPollingNever(flag) == FALSE

\* polling.ts:34: if (this.isPolling)
alreadyPolling(flag) == flag

\* polling.ts:211-214, 33-46: runPollingCycle up to the first await
runPollingCycle(n) ==
  /\ inv[n].pc = "idle"
  /\ \A m \in Invs : m < n => inv[m].pc # "idle"
  /\ LET overlapped == \E m \in Invs : inv[m].pc \notin {"idle", "done"} IN
     IF alreadyPolling(isPolling)
     THEN /\ inv' = [inv EXCEPT ![n] = notifyStart(inv[n], <<>>)]
          /\ obs' = [obs EXCEPT ![n] = [obs[n] EXCEPT !.skipped = TRUE,
                                                      !.overlapped = overlapped]]
          /\ UNCHANGED isPolling
     ELSE /\ isPolling' = TRUE
          /\ inv' = [inv EXCEPT ![n] = [inv[n] EXCEPT !.pc = "list"]]
          /\ obs' = [obs EXCEPT ![n] = [obs[n] EXCEPT !.entered = TRUE,
                                                      !.overlapped = overlapped]]
  /\ UNCHANGED <<store, faults>>
  /\ UNCHANGED <<aside, stopVars>>

\* polling.ts:236-239: the cron callback
CronTick(n) ==
  /\ cronJob
  /\ runPollingCycle(n)
  /\ UNCHANGED cronJob

\* bot/index.ts:91-93 (POST /poll) and polling.ts:255-258 (runImmediatePolling)
Trigger(n) ==
  /\ runPollingCycle(n)
  /\ UNCHANGED cronJob

\* variant: the guard never finds a job
alreadyScheduledNever(job) == FALSE

\* polling.ts:224: if (this.cronJob)
alreadyScheduled(job) == job

\* polling.ts:223-245: a job is created and started unless there is one
startScheduledPolling ==
  /\ IF alreadyScheduled(cronJob)
     THEN UNCHANGED <<cronJob, runningTasks>>
     ELSE cronJob' = TRUE /\ runningTasks' = runningTasks + 1
  /\ UNCHANGED <<isPolling, store, faults, inv, obs>>
  /\ UNCHANGED <<aside, observeStops, stoppedWhile>>

\* variant: stopping the timer cancels the cycles in progress
framesAfterStopCancelled(frames) ==
  [n \in Invs |-> IF frames[n].pc \in {"idle", "done"} THEN frames[n]
                  ELSE [frames[n] EXCEPT !.pc = "done", !.sending = {}]]

\* polling.ts:247-253: stopScheduledPolling touches the cron job only, the
\* frames of the invocations stay as they are
framesAfterStop(frames) == frames

\* polling.ts:247-253
stopScheduledPolling ==
  /\ IF cronJob
     THEN cronJob' = FALSE /\ runningTasks' = runningTasks - 1
     ELSE UNCHANGED <<cronJob, runningTasks>>
  /\ inv' = framesAfterStop(inv)
  /\ stoppedWhile' =
       IF observeStops /\ cronJob
       THEN stoppedWhile \cup {n \in Invs : inv[n].pc \notin {"idle", "done"}}
       ELSE stoppedWhile
  /\ UNCHANGED <<isPolling, store, faults, obs, observeStops>>
  /\ UNCHANGED aside

\* polling.ts:46-59: getAllRepositories returns or throws
ListReturns(n) ==
  /\ inv[n].pc = "list"
  /\ \E ok \in Outcomes :
       /\ Outcome(ok)
       /\ IF ok
          THEN LET rows == getAllRepositories(repositories)
                   l == [inv[n] EXCEPT !.repositories = rows] IN
               IF Len(rows) = 0
               THEN PollExit(n, l, obs[n], <<>>, "return none")
               ELSE /\ inv' = [inv EXCEPT ![n] = [l EXCEPT !.pc = "quota"]]
                    /\ UNCHANGED <<isPolling, obs>>
          ELSE PollFailed(n, "getAllRepositories")
  /\ UNCHANGED <<cronJob, store>>
  /\ UNCHANGED <<aside, stopVars>>

\* polling.ts:59-94: getRateLimitStatus returns or throws
QuotaReturns(n) ==
  /\ inv[n].pc = "quota"
  /\ \E ok \in Outcomes :
       /\ Outcome(ok)
       /\ IF ok
          THEN \E remaining \in Remaining :
               LET o == [obs[n] EXCEPT !.remaining = remaining] IN
               IF quotaShortfall(remaining, Len(inv[n].repositories))
               THEN PollExit(n, inv[n], o, <<>>, "return shortfall")
               ELSE /\ inv' = [inv EXCEPT ![n] = startBatch(inv[n], 1)]
                    /\ obs' = [obs EXCEPT ![n] = obsBatch(o, inv[n], 1)]
                    /\ UNCHANGED isPolling
          ELSE PollFailed(n, "getRateLimitStatus")
  /\ UNCHANGED <<cronJob, store>>
  /\ UNCHANGED <<aside, stopVars>>

\* polling.ts:94-105, 123-129: getRepositoryStarCount returns or throws
FetchReturns(n, r) ==
  /\ inv[n].pc = "batch"
  /\ inv[n].task[r] = "fetch"
  /\ \E ok \in Outcomes :
       /\ Outcome(ok)
       /\ IF ok
          THEN \E currentStars \in Reported(r) :
               LET l == [inv[n] EXCEPT !.currentStars[r] = currentStars] IN
               IF starsChanged(currentStars, repoOf(l, r).stars_count)
               THEN /\ inv' = [inv EXCEPT ![n] = [l EXCEPT !.task[r] = "update"]]
                    /\ obs' = [obs EXCEPT ![n].writes[r] = Append(@, currentStars)]
                    /\ UNCHANGED isPolling
               ELSE TaskSettled(n, [l EXCEPT !.task[r] = "done"], obs[n])
          ELSE TaskFailed(n, r, "getRepositoryStarCount")
  /\ UNCHANGED <<cronJob, store>>
  /\ UNCHANGED <<aside, stopVars>>

\* polling.ts:105-109, database.ts:120-132: updateRepositoryStarsCount
\* returns or throws
UpdateReturns(n, r) ==
  /\ inv[n].pc = "batch"
  /\ inv[n].task[r] = "update"
  /\ \E ok \in Outcomes :
       /\ Outcome(ok)
       /\ IF ok
          THEN /\ repositories' =
                    updateRepositoryStarsCount(repositories, r, inv[n].currentStars[r])
               /\ IF starsIncreased(inv[n].currentStars[r], repoOf(inv[n], r).stars_count)
                  THEN /\ inv' = [inv EXCEPT ![n].task[r] = "event"]
                       /\ UNCHANGED <<isPolling, obs>>
                  ELSE TaskSettled(n, [inv[n] EXCEPT !.task[r] = "done"], obs[n])
          ELSE /\ UNCHANGED repositories
               /\ TaskFailed(n, r, "updateRepositoryStarsCount")
  /\ UNCHANGED <<cronJob, star_events, chat_repositories>>
  /\ UNCHANGED <<aside, stopVars>>

\* polling.ts:109-121, database.ts:192-210: createStarEvent returns or throws
EventReturns(n, r) ==
  /\ inv[n].pc = "batch"
  /\ inv[n].task[r] = "event"
  /\ \E ok \in Outcomes :
       /\ Outcome(ok)
       /\ IF ok
          THEN LET repo == repoOf(inv[n], r)
                   row == StarEventRow(repo.id, inv[n].currentStars[r], repo.stars_count)
                   event == StarChangeEvent(repo, inv[n].currentStars[r]) IN
               /\ star_events' = Append(star_events, row)
               /\ TaskSettled(n, [inv[n] EXCEPT !.task[r] = "done",
                                                !.starChangeEvents = push(@, event)],
                              [obs[n] EXCEPT !.recorded[r] = Append(@, row)])
          ELSE /\ UNCHANGED star_events
               /\ TaskFailed(n, r, "createStarEvent")
  /\ UNCHANGED <<cronJob, repositories, chat_repositories>>
  /\ UNCHANGED <<aside, stopVars>>

\* polling.ts:135-137, 81-94: the inter-batch sleep ends
SleepReturns(n) ==
  /\ inv[n].pc = "sleep"
  /\ inv' = [inv EXCEPT ![n] = startBatch(inv[n], inv[n].i + 1)]
  /\ obs' = [obs EXCEPT ![n] = obsBatch(obs[n], inv[n], inv[n].i + 1)]
  /\ UNCHANGED <<isPolling, cronJob, store, faults>>
  /\ UNCHANGED <<aside, stopVars>>

\* polling.ts:170-187, 199-205: getSubscribersForRepository returns or throws
LookupReturns(n) ==
  /\ inv[n].pc = "lookup"
  /\ \E ok \in Outcomes :
       /\ Outcome(ok)
       /\ IF ok
          THEN LET event == inv[n].starChangeEvents[inv[n].eventNo]
                   subscribers ==
                     getSubscribersForRepository(chat_repositories, event.repositoryId)
                   targets == notificationTargets(subscribers)
                   o == [obs[n] EXCEPT
                           !.lookedUp[event.repositoryId] = Append(@, subscribers),
                           !.attempts = [p \in Chats \X Repos |->
                              IF p[1] \in targets /\ p[2] = event.repositoryId
                              THEN obs[n].attempts[p] + 1 ELSE obs[n].attempts[p]]] IN
               /\ obs' = [obs EXCEPT ![n] = o]
               /\ inv' = [inv EXCEPT ![n] =
                    IF targets = {} THEN nextEvent(inv[n])
                    ELSE [inv[n] EXCEPT !.pc = "send", !.sending = targets]]
               /\ UNCHANGED isPolling
          ELSE LET o == [obs[n] EXCEPT !.failed = TRUE]
                   h == caughtAt("getSubscribersForRepository") IN
               IF h = "forEvent"
               THEN /\ obs' = [obs EXCEPT ![n] = o]
                    /\ inv' = [inv EXCEPT ![n] = nextEvent(inv[n])]
                    /\ UNCHANGED isPolling
               ELSE CycleAbort(n, inv[n], o, h, FALSE)
  /\ UNCHANGED <<cronJob, store>>
  /\ UNCHANGED <<aside, stopVars>>

\* polling.ts:179-198, bot/index.ts:125-168: one sendStarNotification settles
SendReturns(n, chatId) ==
  /\ inv[n].pc = "send"
  /\ chatId \in inv[n].sending
  /\ \E ok \in Outcomes :
       /\ Outcome(ok)
       /\ chat_repositories' =
            subscriptionsAfterSend(chat_repositories, chatId,
               inv[n].starChangeEvents[inv[n].eventNo].repositoryId, ok)
       /\ LET event == inv[n].starChangeEvents[inv[n].eventNo]
              l == [inv[n] EXCEPT !.sending = @ \ {chatId}]
              next == IF sendsSettled(l) THEN nextEvent(l) ELSE l IN
          IF ok
          THEN /\ obs' = [obs EXCEPT ![n].received = @ \cup
                    {StarNotification(chatId, event.repositoryId, event.starsGained,
                                      event.currentStars)}]
               /\ inv' = [inv EXCEPT ![n] = next]
               /\ UNCHANGED isPolling
          ELSE LET o == [obs[n] EXCEPT !.failed = TRUE,
                                       !.sendFailed = @ \cup {<<chatId, event.repositoryId>>}]
                   h == caughtAt("sendMessage") IN
               IF h \in {"sendStarNotification", "subscribers.map"}
               THEN /\ obs' = [obs EXCEPT ![n] = o]
                    /\ inv' = [inv EXCEPT ![n] = next]
                    /\ UNCHANGED isPolling
               ELSE IF h = "forEvent"
               THEN /\ obs' = [obs EXCEPT ![n] = o]
                    /\ inv' = [inv EXCEPT ![n] = nextEvent(l)]
                    /\ UNCHANGED isPolling
               ELSE CycleAbort(n, l, o, h, FALSE)
  /\ UNCHANGED <<cronJob, repositories, star_events>>
  /\ UNCHANGED <<aside, stopVars>>

Next ==
  \/ \E n \in Invs : CronTick(n)
  \/ \E n \in Invs : Trigger(n)
  \/ startScheduledPolling
  \/ stopScheduledPolling
  \/ \E n \in Invs : ListReturns(n)
  \/ \E n \in Invs : QuotaReturns(n)
  \/ \E n \in Invs, r \in Repos : FetchReturns(n, r)
  \/ \E n \in Invs, r \in Repos : UpdateReturns(n, r)
  \/ \E n \in Invs, r \in Repos : EventReturns(n, r)
  \/ \E n \in Invs : SleepReturns(n)
  \/ \E n \in Invs : LookupReturns(n)
  \/ \E n \in Invs, chatId \in Chats : SendReturns(n, chatId)

Spec == Init /\ [][Next]_vars

\* Every collaborator call that is awaited returns or throws in the end, and
\* the timer of the inter-batch sleep fires.  The condition is stated per
\* kind of call: a run makes finitely many calls, so as long as one of a kind
\* is pending one of them returns, and so each does.
Returns ==
  /\ WF_vars(\E n \in Invs : ListReturns(n))
  /\ WF_vars(\E n \in Invs : QuotaReturns(n))
  /\ WF_vars(\E n \in Invs, r \in Repos : FetchReturns(n, r))
  /\ WF_vars(\E n \in Invs, r \in Repos : UpdateReturns(n, r))
  /\ WF_vars(\E n \in Invs, r \in Repos : EventReturns(n, r))
  /\ WF_vars(\E n \in Invs : SleepReturns(n))
  /\ WF_vars(\E n \in Invs : LookupReturns(n))
  /\ WF_vars(\E n \in Invs, chatId \in Chats : SendReturns(n, chatId))

\* The process after Application.start with the internal scheduler
\* (index.ts:34): the timer is armed and every repository is tracked.
LiveInit ==
  /\ isPolling = FALSE
  /\ cronJob = TRUE
  /\ repositories = [r \in Repos |-> [stars_count |-> 1, is_archived |-> FALSE]]
  /\ star_events = <<>>
  /\ chat_repositories = SetToBag({p \in Chats \X Repos : p[1] + p[2] <= NumChats + 1})
  /\ faults = 0
  /\ inv = [n \in Invs |-> NoFrame]
  /\ obs = [n \in Invs |-> NoObs]
  /\ NoChunkCall
  /\ NoTimer
  /\ NoStopHistory
  /\ NoCommands
  /\ NoRequests
  /\ NoGithub

\* the cycles are started by the timer and by the initial run, and the timer
\* stays armed
LiveNext ==
  \/ \E n \in Invs : CronTick(n)
  \/ \E n \in Invs : Trigger(n)
  \/ \E n \in Invs : ListReturns(n)
  \/ \E n \in Invs : QuotaReturns(n)
  \/ \E n \in Invs, r \in Repos : FetchReturns(n, r)
  \/ \E n \in Invs, r \in Repos : UpdateReturns(n, r)
  \/ \E n \in Invs, r \in Repos : EventReturns(n, r)
  \/ \E n \in Invs : SleepReturns(n)
  \/ \E n \in Invs : LookupReturns(n)
  \/ \E n \in Invs, chatId \in Chats : SendReturns(n, chatId)

LiveSpec == LiveInit /\ [][LiveNext]_vars /\ Returns

\* ------------------------------------------- stopping the recurring timer
\* The process with the internal scheduler (index.ts start(): no external
\* cron), every repository tracked, and the history of the stops kept.
StopInit ==
  /\ isPolling = FALSE
  /\ cronJob = FALSE
  /\ repositories = [r \in Repos |-> [stars_count |-> 1, is_archived |-> FALSE]]
  /\ star_events = <<>>
  /\ chat_repositories = SetToBag({p \in Chats \X Repos : p[1] + p[2] <= NumChats + 1})
  /\ faults = 0
  /\ inv = [n \in Invs |-> NoFrame]
  /\ obs = [n \in Invs |-> NoObs]
  /\ NoChunkCall
  /\ NoTimer
  /\ NoCommands
  /\ NoRequests
  /\ NoGithub
  /\ observeStops = TRUE
  /\ stoppedWhile = {}
  /\ runningTasks = IF cronJob THEN 1 ELSE 0

\* the cycles are started by the timer only
StopNext ==
  \/ \E n \in Invs : CronTick(n)
  \/ startScheduledPolling
  \/ stopScheduledPolling
  \/ \E n \in Invs : ListReturns(n)
  \/ \E n \in Invs : QuotaReturns(n)
  \/ \E n \in Invs, r \in Repos : FetchReturns(n, r)
  \/ \E n \in Invs, r \in Repos : UpdateReturns(n, r)
  \/ \E n \in Invs, r \in Repos : EventReturns(n, r)
  \/ \E n \in Invs : SleepReturns(n)
  \/ \E n \in Invs : LookupReturns(n)
  \/ \E n \in Invs, chatId \in Chats : SendReturns(n, chatId)

StopSpec == StopInit /\ [][StopNext]_vars

\* ------------------------------------------------- chunkArray on its own
\* no polling cycle: the service as constructed, nothing tracked
NoCycle ==
  /\ isPolling = FALSE
  /\ cronJob = FALSE
  /\ repositories = [r \in Repos |-> [stars_count |-> 1, is_archived |-> FALSE]]
  /\ star_events = <<>>
  /\ chat_repositories = EmptyBag
  /\ faults = 0
  /\ inv = [n \in Invs |-> NoFrame]
  /\ obs = [n \in Invs |-> NoObs]

\* the arrays of at most MaxLen repository ids
Arrays == UNION {[1..len -> Repos] : len \in 0..MaxLen}

ChunkInit ==
  /\ NoCycle
  /\ NoTimer
  /\ NoStopHistory
  /\ NoCommands
  /\ NoRequests
  /\ NoGithub
  /\ arg_array \in Arrays
  /\ arg_chunkSize \in 1..MaxChunkSize
  /\ chunks = <<>>
  /\ chunkReturned = FALSE

\* polling.ts:272-278: one call of chunkArray
CallChunkArray ==
  /\ ~chunkReturned
  /\ chunks' = chunkArray(arg_array, arg_chunkSize)
  /\ chunkReturned' = TRUE
  /\ UNCHANGED <<arg_array, arg_chunkSize, cycleVars, timerVars, stopVars, botVars, httpVars,
               githubVars>>

ChunkNext == CallChunkArray

ChunkSpec == ChunkInit /\ [][ChunkNext]_vars

\* ------------------------------------------------- the recurring timer
\* polling.ts:260-270
getPollingStatus ==
  [isScheduled |-> cronJob,
   isCurrentlyPolling |-> isPolling,
   intervalMinutes |-> pollingIntervalMinutes]

\* polling.ts:229: the cron expression built from the configured interval,
\* field by field
cronExpression(intervalMinutes) ==
  [minute |-> [every |-> intervalMinutes], hour |-> "*", dayOfMonth |-> "*",
   month |-> "*", dayOfWeek |-> "*"]

\* the minutes of the hour a step field */n stands for: those of 0 .. 59 that
\* are multiples of n
stepValues(n) == {m \in 0..(MinutesPerHour - 1) : m % n = 0}

\* the expression matches the wall-clock minute t (the process started on the
\* hour; every other field of the expression is *)
cronMatches(expression, t) == (t % MinutesPerHour) \in stepValues(expression.minute.every)

\* the process starts with any positive interval configured
TimerInit ==
  /\ NoCycle
  /\ NoChunkCall
  /\ NoStopHistory
  /\ NoCommands
  /\ NoRequests
  /\ NoGithub
  /\ pollingIntervalMinutes \in 1..MaxInterval
  /\ clock = 0
  /\ lastFiring = -1
  /\ gap = 0

\* polling.ts:236-243: a minute of wall-clock time passes; a started job
\* fires when its expression matches the new minute (its callback is
\* CronTick).  The firings of a job end with the job.
MinutePasses ==
  /\ clock < MaxClock
  /\ clock' = clock + 1
  /\ IF ~cronJob
     THEN lastFiring' = -1 /\ gap' = 0
     ELSE IF cronMatches(cronExpression(pollingIntervalMinutes), clock + 1)
     THEN /\ lastFiring' = clock + 1
          /\ gap' = IF lastFiring = -1 THEN 0 ELSE clock + 1 - lastFiring
     ELSE UNCHANGED <<lastFiring, gap>>
  /\ UNCHANGED <<pollingIntervalMinutes, cycleVars, chunkVars, stopVars, botVars, httpVars,
               githubVars>>

TimerNext ==
  \/ startScheduledPolling
  \/ stopScheduledPolling
  \/ MinutePasses

TimerSpec == TimerInit /\ [][TimerNext]_vars

\* ------------------------------------------- the command handlers
Ops == {"start", "add", "remove", "message"}

Inputs ==
  [kind : {"repo"}, repo : Repos] \cup [kind : {"none", "invalid"}, repo : {0}]

\* variant: every chat is authorized
isAuthorizedChatOpen(chatId) == TRUE

\* handlers.ts:15-20
isAuthorizedChat(chatId) ==
  IF Cardinality(allowedChatIds) = 0 THEN TRUE ELSE chatId \in allowedChatIds

\* github.ts:96-120: the repository a text refers to, 0 (null) when it is
\* neither a GitHub URL nor of the form owner/repo
parseRepositoryUrl(input) == IF input.kind = "repo" THEN input.repo ELSE 0

\* database.ts:40-53: the rows of chat_repositories of one chat
getChatSubscriptions(table, chatId) ==
  [p \in {q \in BagToSet(table) : q[1] = chatId} |-> table[p]]

\* handlers.ts:131
limitReached(length) == length >= maxReposPerChat

\* variant: the table has no UNIQUE(chat_id, repository_id) constraint
uniqueViolationNever(table, chatId, repositoryId) == FALSE

\* database.sql:34: an insert of this pair violates UNIQUE(chat_id, repository_id)
uniqueViolation(table, chatId, repositoryId) == BagIn(<<chatId, repositoryId>>, table)

\* the handler returns, after sending the given reply if any
finish(f, reply) ==
  [NoCmd EXCEPT !.pc = "done", !.op = f.op, !.chat = f.chat, !.input = f.input,
                !.reply = reply]

\* handlers.ts:31-52, 128-129, 253-254: after getOrCreateChat
afterChat(f) ==
  IF f.op = "start" THEN finish(f, "welcome") ELSE [f EXCEPT !.pc = "subs.select"]

\* The process with its tables as earlier commands left them: chat 1 has its
\* row and at most one subscription, to repository 1, which has its row;
\* chat 2 has not used the bot yet.
BotInit ==
  /\ isPolling = FALSE
  /\ cronJob = FALSE
  /\ repositories = (1 :> [stars_count |-> 1, is_archived |-> FALSE])
  /\ star_events = <<>>
  /\ chat_repositories \in {EmptyBag, SetToBag({<<1, 1>>})}
  /\ faults = 0
  /\ inv = [n \in Invs |-> NoFrame]
  /\ obs = [n \in Invs |-> NoObs]
  /\ NoChunkCall
  /\ NoTimer
  /\ NoStopHistory
  /\ NoRequests
  /\ NoGithub
  /\ allowedChatIds \in SUBSET Chats
  /\ chats = {1}
  /\ cmd = [k \in Cmds |-> NoCmd]

\* what the handlers leave alone
botAside ==
  <<isPolling, cronJob, star_events, faults, inv, obs, chunkVars, timerVars, stopVars,
    httpVars, githubVars, allowedChatIds>>

\* bot/index.ts:35-74 and handlers.ts:22-31, 98-128, 224-253, 319-336: an
\* update arrives, the dispatch picks the handler and the handler runs up to
\* its first await
Receive(k, op, chatId, input) ==
  /\ cmd[k].pc = "idle"
  /\ \A j \in Cmds : j < k => cmd[j].pc # "idle"
  /\ op = "start" => input.kind = "none"
  /\ LET f == [NoCmd EXCEPT !.op = op, !.chat = chatId, !.input = input] IN
     cmd' = [cmd EXCEPT ![k] =
       IF ~isAuthorizedChat(chatId)
       THEN finish(f, IF op = "start" THEN "unauthorized" ELSE "")
       ELSE IF op = "start" THEN [f EXCEPT !.pc = "chat.select"]
       ELSE IF op = "message" /\ input.kind = "none" THEN finish(f, "")
       ELSE IF op = "message" /\ parseRepositoryUrl(input) = 0 THEN finish(f, "unknown")
       ELSE IF input.kind = "none" THEN finish(f, "usage")
       ELSE IF parseRepositoryUrl(input) = 0 THEN finish(f, "invalid")
       ELSE [f EXCEPT !.pc = "chat.select"]]
  /\ UNCHANGED <<repositories, chat_repositories, chats, botAside>>

\* database.ts:16-25: the select of getOrCreateChat returns
ChatSelectReturns(k) ==
  /\ cmd[k].pc = "chat.select"
  /\ cmd' = [cmd EXCEPT ![k] =
       IF cmd[k].chat \in chats THEN afterChat(cmd[k])
       ELSE [cmd[k] EXCEPT !.pc = "chat.insert"]]
  /\ UNCHANGED <<repositories, chat_repositories, chats, botAside>>

\* database.ts:27-37, database.sql:7: the insert of getOrCreateChat returns;
\* it fails on the primary key when the row exists by now
ChatInsertReturns(k) ==
  /\ cmd[k].pc = "chat.insert"
  /\ IF cmd[k].chat \in chats
     THEN /\ cmd' = [cmd EXCEPT ![k] = finish(cmd[k], "error")]
          /\ UNCHANGED chats
     ELSE /\ chats' = chats \cup {cmd[k].chat}
          /\ cmd' = [cmd EXCEPT ![k] = afterChat(cmd[k])]
  /\ UNCHANGED <<repositories, chat_repositories, botAside>>

\* handlers.ts:129-140, 254-269: getChatSubscriptions returns
SubscriptionsReturn(k) ==
  /\ cmd[k].pc = "subs.select"
  /\ LET subscriptions == getChatSubscriptions(chat_repositories, cmd[k].chat)
         length == BagCardinality(subscriptions)
         f == [cmd[k] EXCEPT !.count = length]
         repo == parseRepositoryUrl(cmd[k].input) IN
     cmd' = [cmd EXCEPT ![k] =
       IF f.op = "remove"
       THEN IF BagIn(<<f.chat, repo>>, subscriptions)
            THEN [f EXCEPT !.pc = "sub.delete"]
            ELSE finish(f, "not subscribed")
       ELSE IF limitReached(length) THEN finish(f, "limit")
       ELSE [f EXCEPT !.pc = "github"]]
  /\ UNCHANGED <<repositories, chat_repositories, chats, botAside>>

\* handlers.ts:140-151, github.ts:25-49: getRepository returns the repository
\* or null
GithubReturns(k) ==
  /\ cmd[k].pc = "github"
  /\ \E found \in BOOLEAN, archived \in BOOLEAN :
     \E stars \in (IF found THEN Reported(parseRepositoryUrl(cmd[k].input)) ELSE {0}) :
       /\ ~found => ~archived
       /\ cmd' = [cmd EXCEPT ![k] =
            IF found
            THEN [cmd[k] EXCEPT !.pc = "repo.select", !.stargazers_count = stars,
                                !.archived = archived]
            ELSE finish(cmd[k], "not found")]
  /\ UNCHANGED <<repositories, chat_repositories, chats, botAside>>

\* database.ts:56-63: the select of getOrCreateRepository returns
RepoSelectReturns(k) ==
  /\ cmd[k].pc = "repo.select"
  /\ cmd' = [cmd EXCEPT ![k] =
       [cmd[k] EXCEPT !.pc = IF parseRepositoryUrl(cmd[k].input) \in DOMAIN repositories
                             THEN "repo.update" ELSE "repo.insert"]]
  /\ UNCHANGED <<repositories, chat_repositories, chats, botAside>>

\* database.ts:65-82, handlers.ts:151-152: the update of getOrCreateRepository
\* returns
RepoUpdateReturns(k) ==
  /\ cmd[k].pc = "repo.update"
  /\ repositories' = [repositories EXCEPT ![parseRepositoryUrl(cmd[k].input)] =
       [stars_count |-> cmd[k].stargazers_count, is_archived |-> cmd[k].archived]]
  /\ cmd' = [cmd EXCEPT ![k] = [cmd[k] EXCEPT !.pc = "sub.select"]]
  /\ UNCHANGED <<chat_repositories, chats, botAside>>

\* database.ts:85-104, database.sql:17: the insert of getOrCreateRepository
\* returns; it fails on UNIQUE(github_id) when the row exists by now
RepoInsertReturns(k) ==
  /\ cmd[k].pc = "repo.insert"
  /\ LET repo == parseRepositoryUrl(cmd[k].input) IN
     IF repo \in DOMAIN repositories
     THEN /\ cmd' = [cmd EXCEPT ![k] = finish(cmd[k], "error")]
          /\ UNCHANGED repositories
     ELSE /\ repositories' = repositories @@
               (repo :> [stars_count |-> cmd[k].stargazers_count,
                         is_archived |-> cmd[k].archived])
          /\ cmd' = [cmd EXCEPT ![k] = [cmd[k] EXCEPT !.pc = "sub.select"]]
  /\ UNCHANGED <<chat_repositories, chats, botAside>>

\* database.ts:135-146: the select of addSubscription returns
SubSelectReturns(k) ==
  /\ cmd[k].pc = "sub.select"
  /\ cmd' = [cmd EXCEPT ![k] =
       IF BagIn(<<cmd[k].chat, parseRepositoryUrl(cmd[k].input)>>, chat_repositories)
       THEN finish(cmd[k], "subscribed")
       ELSE [cmd[k] EXCEPT !.pc = "sub.insert"]]
  /\ UNCHANGED <<repositories, chat_repositories, chats, botAside>>

\* database.ts:148-163, handlers.ts:154-176: the insert of addSubscription
\* returns
SubInsertReturns(k) ==
  /\ cmd[k].pc = "sub.insert"
  /\ LET repo == parseRepositoryUrl(cmd[k].input) IN
     IF uniqueViolation(chat_repositories, cmd[k].chat, repo)
     THEN /\ cmd' = [cmd EXCEPT ![k] = finish(cmd[k], "error")]
          /\ UNCHANGED chat_repositories
     ELSE /\ chat_repositories' = chat_repositories (+) SetToBag({<<cmd[k].chat, repo>>})
          /\ cmd' = [cmd EXCEPT ![k] = finish(cmd[k], "subscribed")]
  /\ UNCHANGED <<repositories, chats, botAside>>

\* database.ts:166-176, handlers.ts:269-275: removeSubscription returns
SubDeleteReturns(k) ==
  /\ cmd[k].pc = "sub.delete"
  /\ LET row == <<cmd[k].chat, parseRepositoryUrl(cmd[k].input)>> IN
     chat_repositories' =
       [p \in DOMAIN chat_repositories \ {row} |-> chat_repositories[p]]
  /\ cmd' = [cmd EXCEPT ![k] = finish(cmd[k], "unsubscribed")]
  /\ UNCHANGED <<repositories, chats, botAside>>

BotNext ==
  \/ \E k \in Cmds, op \in Ops, chatId \in Chats, input \in Inputs :
        Receive(k, op, chatId, input)
  \/ \E k \in Cmds : ChatSelectReturns(k)
  \/ \E k \in Cmds : ChatInsertReturns(k)
  \/ \E k \in Cmds : SubscriptionsReturn(k)
  \/ \E k \in Cmds : GithubReturns(k)
  \/ \E k \in Cmds : RepoSelectReturns(k)
  \/ \E k \in Cmds : RepoUpdateReturns(k)
  \/ \E k \in Cmds : RepoInsertReturns(k)
  \/ \E k \in Cmds : SubSelectReturns(k)
  \/ \E k \in Cmds : SubInsertReturns(k)
  \/ \E k \in Cmds : SubDeleteReturns(k)

BotSpec == BotInit /\ [][BotNext]_vars

\* ------------------------------------------------- the endpoint POST /poll
\* the keys an operator may configure, and what a client may send
Keys == {"k1", "k2"}
Schemes == {"Bearer", "bearer", "Basic"}

\* req.headers.authorization: absent, a bare credential, or a scheme and a
\* credential; the words of the header in order
Headers == {<<>>} \cup {<<k>> : k \in Keys} \cup (Schemes \X Keys)

\* webhook.ts:77: `Bearer ${config.cron.apiKey}`
expectedAuth(key) == <<"Bearer", key>>

\* variant: the scheme is compared without regard to case
unauthorizedAnyCase(authHeader, key) ==
  \/ authHeader = <<>>
  \/ Len(authHeader) # 2
  \/ authHeader[1] \notin {"Bearer", "bearer"}
  \/ authHeader[2] # key

\* webhook.ts:79: !authHeader || authHeader !== expectedAuth
unauthorized(authHeader, key) ==
  \/ authHeader = <<>>
  \/ authHeader # expectedAuth(key)

\* res.status(status).json(...), with whether the handler was called
respond(authHeader, status, invoked) ==
  requests' = Append(requests,
    [authorization |-> authHeader, status |-> status, invoked |-> invoked])

\* The process is up with its HTTP server: a key is configured or not, and
\* the constructor of Application has called setPollingService, which sets
\* the handler when external cron is enabled (bot/index.ts:88-95) and leaves
\* it unset when the server only serves the Telegram webhook.
HttpInit ==
  /\ NoCycle
  /\ NoChunkCall
  /\ NoTimer
  /\ NoStopHistory
  /\ NoCommands
  /\ NoGithub
  /\ apiKey \in {""} \cup Keys
  /\ pollingHandler \in BOOLEAN
  /\ requests = <<>>

\* webhook.ts:72-116: one request to POST /poll.  The handler is started in
\* the background and the answer does not wait for it.
PostPoll(authHeader) ==
  /\ Len(requests) < MaxRequests
  /\ IF apiKey # "" /\ unauthorized(authHeader, apiKey)
     THEN respond(authHeader, 401, FALSE)
     ELSE IF ~pollingHandler
     THEN respond(authHeader, 503, FALSE)
     ELSE respond(authHeader, 200, TRUE)
  /\ UNCHANGED <<apiKey, pollingHandler, cycleVars, chunkVars, timerVars, stopVars, botVars,
                 githubVars>>

HttpNext == \E authHeader \in Headers : PostPoll(authHeader)

HttpSpec == HttpInit /\ [][HttpNext]_vars

\* --------------------- cycles and /add commands on one tracked repository
\* Repository 1 is tracked with a stored count of 1, which is its count on
\* GitHub, and chat 1 is subscribed to it; the other repositories are
\* archived.  Every chat has its row, no chat is turned away and no call
\* fails.
TrackInit ==
  /\ isPolling = FALSE
  /\ cronJob = FALSE
  /\ repositories = [r \in Repos |-> [stars_count |-> 1, is_archived |-> r # 1]]
  /\ star_events = <<>>
  /\ chat_repositories = SetToBag({<<1, 1>>})
  /\ faults = MaxFaults
  /\ inv = [n \in Invs |-> NoFrame]
  /\ obs = [n \in Invs |-> NoObs]
  /\ NoChunkCall
  /\ NoTimer
  /\ NoStopHistory
  /\ NoCommands
  /\ NoRequests
  /\ github = [r \in Repos |-> IF r = 1 THEN 1 ELSE -1]

\* somebody stars repository r on GitHub; the count never goes down
StarGained(r) ==
  /\ github[r] >= 0
  /\ github[r] < MaxStars
  /\ github' = [github EXCEPT ![r] = @ + 1]
  /\ UNCHANGED <<cycleVars, chunkVars, timerVars, stopVars, botVars, httpVars>>

\* polling cycles, /add commands for repository 1 from any chat, and stars
\* given on GitHub, in any interleaving
TrackNext ==
  \/ \E n \in Invs : Trigger(n)
  \/ \E n \in Invs : ListReturns(n)
  \/ \E n \in Invs : QuotaReturns(n)
  \/ \E n \in Invs, r \in Repos : FetchReturns(n, r)
  \/ \E n \in Invs, r \in Repos : UpdateReturns(n, r)
  \/ \E n \in Invs, r \in Repos : EventReturns(n, r)
  \/ \E n \in Invs : LookupReturns(n)
  \/ \E n \in Invs, chatId \in Chats : SendReturns(n, chatId)
  \/ \E k \in Cmds, chatId \in Chats :
        Receive(k, "add", chatId, [kind |-> "repo", repo |-> 1])
  \/ \E k \in Cmds : ChatSelectReturns(k)
  \/ \E k \in Cmds : SubscriptionsReturn(k)
  \/ \E k \in Cmds : GithubReturns(k)
  \/ \E k \in Cmds : RepoSelectReturns(k)
  \/ \E k \in Cmds : RepoUpdateReturns(k)
  \/ \E k \in Cmds : SubSelectReturns(k)
  \/ \E k \in Cmds : SubInsertReturns(k)
  \/ StarGained(1)

TrackSpec == TrackInit /\ [][TrackNext]_vars

\* ================================================================ claims

\* between setting and clearing isPolling
InPoll(n) == inv[n].pc \in {"list", "quota", "batch", "sleep"}

\* inside notifySubscribers
InFanout(n) == inv[n].pc \in {"lookup", "send"}

\* the cycle of invocation n (quota check, batches, detection, fan-out) is
\* in progress
InCycle(n) == InPoll(n) \/ InFanout(n)

\* the check of repository r by invocation n has ended
Checked(n, r) == inv[n].task[r] = "done"

\* the check of repository r by invocation n fetched a value
Fetched(n, r) == inv[n].currentStars[r] >= 0

\* the stars_count of r in the snapshot of invocation n
StoredValue(n, r) == repoOf(inv[n], r).stars_count

\* the events of repository r among the accumulated events of invocation n
EventsOf(n, r) ==
  {k \in 1..Len(inv[n].starChangeEvents) : inv[n].starChangeEvents[k].repositoryId = r}

\* invocation n made no notification call for repository r
NoNotification(n, r) ==
  /\ \A c \in Chats : obs[n].attempts[<<c, r>>] = 0
  /\ \A m \in obs[n].received : m.repositoryId # r

\* invocation n recorded exactly the Delta Event p -> v for repository r
OneDeltaEvent(n, r, p, v) ==
  /\ Len(obs[n].recorded[r]) = 1
  /\ obs[n].recorded[r][1].repository_id = r
  /\ obs[n].recorded[r][1].previous_stars_count = p
  /\ obs[n].recorded[r][1].stars_count = v
  /\ obs[n].recorded[r][1].stars_gained = v - p
  /\ Cardinality(EventsOf(n, r)) = 1
  /\ \A k \in EventsOf(n, r) :
       /\ inv[n].starChangeEvents[k].previousStars = p
       /\ inv[n].starChangeEvents[k].currentStars = v
       /\ inv[n].starChangeEvents[k].starsGained = v - p

\* invocation n recorded no Delta Event for repository r
NoDeltaEvent(n, r) ==
  /\ obs[n].recorded[r] = <<>>
  /\ EventsOf(n, r) = {}

\* C1 (as claimed): at every instant at most one cycle, fan-out included, is
\* in progress.
C1_AtMostOneCycle ==
  \A m \in Invs, n \in Invs : m # n => ~(InCycle(m) /\ InCycle(n))

\* C2 (as claimed): an invocation started while another one had not resolved
\* fetches nothing and writes nothing.
C2_OverlappingCallIdle ==
  \A n \in Invs : obs[n].overlapped =>
     \A r \in Repos : obs[n].fetches[r] = 0 /\ obs[n].writes[r] = <<>>

\* C3 (as claimed): once an entity whose fetched value exceeds its stored
\* value has been checked, exactly one store write to the fetched value and
\* exactly one Delta Event stored -> fetched have occurred in that cycle.
C3_IncreaseAlwaysRecorded ==
  \A n \in Invs, r \in Repos :
     (Checked(n, r) /\ Fetched(n, r) /\ inv[n].currentStars[r] > StoredValue(n, r)) =>
        /\ obs[n].writes[r] = <<inv[n].currentStars[r]>>
        /\ OneDeltaEvent(n, r, StoredValue(n, r), inv[n].currentStars[r])

\* C3 (amended): once an entity whose fetched value exceeds its stored value
\* has been checked, exactly one store write to the fetched value has been
\* issued; when neither that write nor the event recording threw, exactly one
\* Delta Event stored -> fetched with magnitude fetched - stored has been
\* recorded, and otherwise none.
C3_IncreaseRecorded ==
  \A n \in Invs, r \in Repos :
     (Checked(n, r) /\ Fetched(n, r) /\ inv[n].currentStars[r] > StoredValue(n, r)) =>
        /\ obs[n].fetches[r] = 1
        /\ obs[n].writes[r] = <<inv[n].currentStars[r]>>
        /\ IF obs[n].error[r] = ""
           THEN OneDeltaEvent(n, r, StoredValue(n, r), inv[n].currentStars[r])
           ELSE NoDeltaEvent(n, r)

C3_Witness ==
  \E n \in Invs, r \in Repos :
     /\ Checked(n, r) /\ obs[n].error[r] = ""
     /\ StoredValue(n, r) = 0 /\ inv[n].currentStars[r] = 2
     /\ Len(obs[n].recorded[r]) = 1

\* C4: once an entity whose fetched value equals its stored value has been
\* checked, the cycle makes no store write, records no Delta Event and sends
\* no notification for it.
C4_EqualNoAction ==
  \A n \in Invs, r \in Repos :
     (Checked(n, r) /\ Fetched(n, r) /\ inv[n].currentStars[r] = StoredValue(n, r)) =>
        /\ obs[n].writes[r] = <<>>
        /\ NoDeltaEvent(n, r)
        /\ NoNotification(n, r)
        /\ obs[n].lookedUp[r] = <<>>

C4_Witness ==
  \E n \in Invs, r \in Repos :
     /\ inv[n].pc = "done"
     /\ Checked(n, r) /\ Fetched(n, r)
     /\ inv[n].currentStars[r] = StoredValue(n, r)
     /\ Len(inv[n].starChangeEvents) > 0

\* C5: once an entity whose fetched value is smaller than its stored value
\* has been checked, the cycle has made exactly one store write, of the
\* fetched value, and records no Delta Event and sends no notification for it.
C5_DecreaseSilent ==
  \A n \in Invs, r \in Repos :
     (Checked(n, r) /\ Fetched(n, r) /\ inv[n].currentStars[r] < StoredValue(n, r)) =>
        /\ obs[n].writes[r] = <<inv[n].currentStars[r]>>
        /\ NoDeltaEvent(n, r)
        /\ NoNotification(n, r)
        /\ obs[n].lookedUp[r] = <<>>

C5_Witness ==
  \E n \in Invs, r \in Repos :
     /\ inv[n].pc = "done"
     /\ Checked(n, r) /\ inv[n].currentStars[r] = 0 /\ StoredValue(n, r) = 1
     /\ obs[n].error[r] = ""
     /\ repositories[r].stars_count = 0

\* the quota check of invocation n returned less than one call per tracked
\* entity
Shortfall(n) ==
  /\ obs[n].remaining >= 0
  /\ obs[n].remaining < Len(inv[n].repositories)

\* C6: when the remaining budget is smaller than the number of tracked
\* entities, the cycle ends at once: no fetch, no store write, no Delta
\* Event, no notification, no error, and the flag cleared by it.
C6_QuotaGate ==
  \A n \in Invs : Shortfall(n) =>
     /\ inv[n].pc = "done"
     /\ ~obs[n].threw
     /\ obs[n].cleared = 1
     /\ inv[n].starChangeEvents = <<>>
     /\ \A r \in Repos :
          /\ obs[n].fetches[r] = 0
          /\ obs[n].writes[r] = <<>>
          /\ obs[n].recorded[r] = <<>>
          /\ obs[n].lookedUp[r] = <<>>
          /\ NoNotification(n, r)
     /\ ((\A m \in Invs : ~InPoll(m)) => ~isPolling)

C6_Witness ==
  \E n \in Invs :
     /\ obs[n].remaining = 2 /\ Len(inv[n].repositories) = 3
     /\ inv[n].pc = "done" /\ ~isPolling

\* the fan-out of the event of repository r by invocation n has settled
FanoutSettled(n, r) ==
  /\ obs[n].lookedUp[r] # <<>>
  /\ \/ inv[n].pc = "done"
     \/ /\ InFanout(n)
        /\ inv[n].starChangeEvents[inv[n].eventNo].repositoryId # r

\* C7: every subscriber the lookup of an event returned gets exactly one send
\* attempt, whatever happens to the other sends, and once the event's fan-out
\* has settled every subscriber whose own send did not fail has received the
\* notification.
C7_FanoutIsolation ==
  \A n \in Invs, r \in Repos : obs[n].lookedUp[r] # <<>> =>
     /\ Len(obs[n].lookedUp[r]) = 1
     /\ \A c \in Chats :
          obs[n].attempts[<<c, r>>] = (IF c \in obs[n].lookedUp[r][1] THEN 1 ELSE 0)
     /\ FanoutSettled(n, r) =>
          \A c \in obs[n].lookedUp[r][1] :
             \/ <<c, r>> \in obs[n].sendFailed
             \/ \E m \in obs[n].received : m.chat = c /\ m.repositoryId = r

C7_Witness ==
  \E n \in Invs, r \in Repos :
     /\ FanoutSettled(n, r)
     /\ Cardinality(obs[n].lookedUp[r][1]) >= 2
     /\ \E c \in Chats, d \in Chats :
          /\ <<c, r>> \in obs[n].sendFailed
          /\ \E m \in obs[n].received : m.chat = d /\ m.repositoryId = r

\* C8: in a cycle without failure that found the value of an entity risen
\* from p to n, the store is written once, with n, one Delta Event p -> n is
\* recorded, and each subscriber the lookup returned receives exactly one
\* notification, carrying gained = n - p and total = n; nobody else gets one.
C8_EndToEnd ==
  \A n \in Invs, r \in Repos :
     (/\ inv[n].pc = "done" /\ ~obs[n].failed
      /\ Checked(n, r) /\ inv[n].currentStars[r] > StoredValue(n, r)) =>
        /\ obs[n].writes[r] = <<inv[n].currentStars[r]>>
        /\ OneDeltaEvent(n, r, StoredValue(n, r), inv[n].currentStars[r])
        /\ Len(obs[n].lookedUp[r]) = 1
        /\ \A c \in Chats :
             LET mine == {m \in obs[n].received : m.chat = c /\ m.repositoryId = r} IN
             IF c \in obs[n].lookedUp[r][1]
             THEN /\ obs[n].attempts[<<c, r>>] = 1
                  /\ mine = {[chat |-> c, repositoryId |-> r,
                              gained |-> inv[n].currentStars[r] - StoredValue(n, r),
                              total |-> inv[n].currentStars[r]]}
             ELSE obs[n].attempts[<<c, r>>] = 0 /\ mine = {}

C8_Witness ==
  \E n \in Invs, r \in Repos :
     /\ inv[n].pc = "done" /\ ~obs[n].failed
     /\ Checked(n, r) /\ StoredValue(n, r) = 0 /\ inv[n].currentStars[r] = 2
     /\ Cardinality({m \in obs[n].received : m.repositoryId = r}) = 2

\* C9: no error of a collaborator leaves runPollingCycle: the promise of
\* every invocation settles without rejection, a failure in the poll phase
\* leaves the flag cleared, and an invocation started when no other one is in
\* its poll phase enters a new cycle.
C9_NoErrorEscapes ==
  /\ \A n \in Invs : ~obs[n].threw
  /\ \A n \in Invs : (obs[n].failed /\ ~InPoll(n)) => obs[n].cleared = 1
  /\ \A n \in Invs : obs[n].skipped => \E m \in Invs : m # n /\ obs[m].entered
  /\ (\A m \in Invs : ~InPoll(m)) => ~isPolling

C9_Witness ==
  /\ obs[1].failed /\ inv[1].pc = "done"
  /\ inv[1].repositories = <<>>
  /\ obs[2].entered /\ inv[2].i = 2

\* C10: the invocation that set the flag clears it exactly once when it
\* leaves the poll phase, by whatever path; an invocation that found the flag
\* set never touches it; the flag is never set without an invocation in its
\* poll phase.
C10_FlagOwnership ==
  /\ \A n \in Invs :
       /\ obs[n].cleared = (IF obs[n].entered /\ ~InPoll(n) THEN 1 ELSE 0)
       /\ obs[n].skipped => (~obs[n].entered /\ obs[n].cleared = 0)
       /\ InPoll(n) => obs[n].entered
  /\ isPolling => \E n \in Invs : InPoll(n)

C10_Witness ==
  /\ obs[2].skipped
  /\ inv[1].pc = "done" /\ obs[1].failed /\ obs[1].cleared = 1
  /\ inv[1].i = 0
  /\ ~isPolling

\* the check of repository r by invocation n ended in its catch block
CheckFailed(n, r) == obs[n].error[r] # ""

\* the ids of the snapshot of invocation n
Snapshot(n) == {row.id : row \in Range(inv[n].repositories)}

\* the number of batches of invocation n
NumBatches(n) == Len(chunkArray(inv[n].repositories, batchSize))

\* C11: a failure in the check of one entity (fetch, store write or event
\* recording) leaves no Delta Event for it in this cycle and ends neither its
\* batch nor the cycle: the cycle stays in its batch loop until the last batch
\* has settled, every entity of the snapshot is fetched exactly once, and every
\* other entity whose own check did not fail is written when its value changed
\* and gets its Delta Event when the value rose.
C11_EntityFailureIsolated ==
  \A n \in Invs, r \in Repos : CheckFailed(n, r) =>
     /\ NoDeltaEvent(n, r)
     /\ NoNotification(n, r)
     /\ ~obs[n].threw
     /\ InPoll(n) => inv[n].pc \in {"batch", "sleep"}
     /\ ~InPoll(n) =>
          /\ inv[n].i = NumBatches(n)
          /\ \A s \in Snapshot(n) :
               /\ obs[n].fetches[s] = 1
               /\ Checked(n, s)
               /\ (s # r /\ ~CheckFailed(n, s)) =>
                    /\ Fetched(n, s)
                    /\ obs[n].writes[s] =
                         (IF inv[n].currentStars[s] # StoredValue(n, s)
                          THEN <<inv[n].currentStars[s]>> ELSE <<>>)
                    /\ IF inv[n].currentStars[s] > StoredValue(n, s)
                       THEN OneDeltaEvent(n, s, StoredValue(n, s), inv[n].currentStars[s])
                       ELSE NoDeltaEvent(n, s)

C11_Witness ==
  \E n \in Invs :
     /\ inv[n].pc = "done"
     /\ NumBatches(n) = 2
     /\ CheckFailed(n, 1)
     /\ Len(obs[n].recorded[2]) = 1
     /\ Len(obs[n].recorded[3]) = 1
     /\ \E m \in obs[n].received : m.repositoryId = 2

\* the concatenation of the groups, in order
RECURSIVE Flatten(_)
Flatten(groups) ==
  IF Len(groups) = 0 THEN <<>> ELSE Head(groups) \o Flatten(Tail(groups))

\* C12: chunkArray on N entities with group size S >= 1 returns ceil(N / S)
\* groups, each of size S except possibly the last, which is not empty, and
\* the groups concatenated in order are the input sequence.
C12_ChunkPartition ==
  chunkReturned =>
     LET N == Len(arg_array)
         S == arg_chunkSize IN
     /\ Len(chunks) = (N + S - 1) \div S
     /\ \A k \in 1..Len(chunks) :
          /\ Len(chunks[k]) >= 1
          /\ Len(chunks[k]) <= S
          /\ k < Len(chunks) => Len(chunks[k]) = S
     /\ Flatten(chunks) = arg_array

C12_Witness ==
  /\ chunkReturned
  /\ Len(arg_array) = 4 /\ arg_chunkSize = 3
  /\ arg_array[1] # arg_array[2] /\ arg_array[3] # arg_array[4]
  /\ Len(chunks) = 2 /\ Len(chunks[2]) = 1

\* the accumulated event k of invocation n is the row that invocation recorded
OwnEvent(n, k) ==
  LET event == inv[n].starChangeEvents[k]
      rows == obs[n].recorded[event.repositoryId] IN
  /\ Len(rows) = 1
  /\ rows[1].previous_stars_count = event.previousStars
  /\ rows[1].stars_count = event.currentStars

\* C13: a Delta Event is fanned out only by the cycle that detected it and
\* only once: the events a cycle holds are the ones it recorded itself, at
\* most one per entity; it looks up and notifies only for those, with at most
\* one send per subscriber and event; a send that failed is not repeated and
\* its notification is never received, in this cycle or in another one that
\* did not detect an event of its own for the entity.
C13_FanoutOnlyByDetector ==
  \A n \in Invs, r \in Repos :
     /\ Len(obs[n].recorded[r]) <= 1
     /\ Cardinality(EventsOf(n, r)) <= Len(obs[n].recorded[r])
     /\ \A k \in EventsOf(n, r) : OwnEvent(n, k)
     /\ Len(obs[n].lookedUp[r]) <= Cardinality(EventsOf(n, r))
     /\ \A c \in Chats :
          /\ obs[n].attempts[<<c, r>>] <= Cardinality(EventsOf(n, r))
          /\ <<c, r>> \in obs[n].sendFailed =>
               /\ obs[n].attempts[<<c, r>>] = 1
               /\ \A m \in obs[n].received : ~(m.chat = c /\ m.repositoryId = r)
     /\ \A m \in obs[n].received : m.repositoryId = r =>
          \E k \in EventsOf(n, r) :
             /\ m.gained = inv[n].starChangeEvents[k].starsGained
             /\ m.total = inv[n].starChangeEvents[k].currentStars

C13_Witness ==
  \E c \in Chats, r \in Repos, s \in Repos :
     /\ inv[1].pc = "done" /\ inv[2].pc = "done"
     /\ <<c, r>> \in obs[1].sendFailed
     /\ obs[2].fetches[r] = 1
     /\ \A d \in Chats : obs[2].attempts[<<d, r>>] = 0
     /\ s # r
     /\ \E m \in obs[2].received : m.repositoryId = s

\* a step of the fan-out of invocation n
FanoutStep(n) == InFanout(n) /\ (inv'[n] # inv[n] \/ obs'[n] # obs[n])

\* C14: a step of notifySubscribers (a subscriber lookup or a send settling,
\* successfully or not) leaves the repositories, the Delta Event history and
\* the subscriptions as they are.
C14_FanoutFrame ==
  [][(\E n \in Invs : FanoutStep(n)) => UNCHANGED store]_vars

C14_Witness ==
  \E n \in Invs, r \in Repos, c \in Chats :
     /\ inv[n].pc = "done"
     /\ <<c, r>> \in obs[n].sendFailed
     /\ \E m \in obs[n].received : m.repositoryId = r
     /\ BagIn(<<c, r>>, chat_repositories)
     /\ Len(star_events) = 1

\* C15 (as claimed): for every positive configured interval, two consecutive
\* firings of the started timer are exactly pollingIntervalMinutes minutes
\* apart.
C15_ExactInterval == gap # 0 => gap = pollingIntervalMinutes

\* a step of the cycle of invocation n
CycleStep(n) ==
  \/ ListReturns(n)
  \/ QuotaReturns(n)
  \/ \E r \in Repos : FetchReturns(n, r) \/ UpdateReturns(n, r) \/ EventReturns(n, r)
  \/ SleepReturns(n)
  \/ LookupReturns(n)
  \/ \E chatId \in Chats : SendReturns(n, chatId)

\* the cycle of invocation n has run to its end: every batch it had started
\* on was followed by the later ones, every entity of its snapshot was
\* fetched, and the loop over its accumulated events reached the last one
RanToCompletion(n) ==
  /\ inv[n].pc = "done"
  /\ ~obs[n].threw
  /\ inv[n].i >= 1 =>
       /\ inv[n].i = NumBatches(n)
       /\ \A r \in Snapshot(n) : Checked(n, r) /\ obs[n].fetches[r] = 1
  /\ inv[n].eventNo = Len(inv[n].starChangeEvents)
  /\ inv[n].sending = {}
  /\ \A k \in 1..Len(inv[n].starChangeEvents) :
       LET r == inv[n].starChangeEvents[k].repositoryId IN
       obs[n].failed \/ Len(obs[n].lookedUp[r]) = 1

\* C16: a stop of the timer changes nothing of a cycle in progress (flag,
\* frames, history and tables stay as they are); a cycle that a stop found in
\* progress always has a next step and, once it has left its last step, has
\* run to completion; and a cycle begins on a timer tick only while the job is
\* scheduled, so none begins between a stop and the next start.
C16_StopLeavesCycle ==
  /\ [](\A n \in stoppedWhile :
          /\ InCycle(n) => ENABLED CycleStep(n)
          /\ ~InCycle(n) => RanToCompletion(n))
  /\ [](~cronJob => ~ENABLED (\E n \in Invs : CronTick(n)))
  /\ [][(cronJob /\ ~cronJob') => UNCHANGED <<isPolling, store, faults, inv, obs>>]_vars
  /\ [][(\E n \in Invs : inv[n].pc = "idle" /\ inv'[n].pc # "idle") => cronJob]_vars

C16_Witness ==
  /\ 1 \in stoppedWhile
  /\ ~cronJob
  /\ inv[2].pc = "idle"
  /\ inv[1].pc = "done"
  /\ inv[1].i = 2
  /\ \A r \in Repos : obs[1].fetches[r] = 1
  /\ Len(inv[1].starChangeEvents) = 2
  /\ \E m \in obs[1].received : m.repositoryId = 2

\* the number of subscription rows of chat c
SubscriptionCount(c) == BagCardinality(getChatSubscriptions(chat_repositories, c))

\* C17 (as claimed): under any interleaving of /add commands and repository
\* messages, no chat ever has more than maxReposPerChat subscriptions.
C17_MaxReposPerChat == \A c \in Chats : SubscriptionCount(c) <= maxReposPerChat

\* the chat list is in force and chat c is not on it
Unauthorized(c) == allowedChatIds # {} /\ c \notin allowedChatIds

\* the tables the handlers write to
botStore == <<chats, repositories, chat_repositories, star_events>>

C20_UniqueSubscriptions ==
  /\ [](\A p \in BagToSet(chat_repositories) : CopiesIn(p, chat_repositories) = 1)
  /\ [][\A k \in Cmds :
          (/\ cmd'[k] # cmd[k]
           /\ cmd'[k].op \in {"add", "message"}
           /\ BagIn(<<cmd'[k].chat, parseRepositoryUrl(cmd'[k].input)>>, chat_repositories))
          => chat_repositories' = chat_repositories]_vars

C20_Witness ==
  /\ cmd[1].pc = "done" /\ cmd[1].op = "add" /\ cmd[1].chat = 1 /\ cmd[1].input.repo = 1
  /\ cmd[2].pc = "done" /\ cmd[2].op = "add" /\ cmd[2].chat = 1 /\ cmd[2].input.repo = 1
  /\ cmd[1].reply = "subscribed" /\ cmd[2].reply = "error"
  /\ CopiesIn(<<1, 1>>, chat_repositories) = 1


\* C19: with a key configured, a request to POST /poll whose Authorization
\* header is absent or is anything but "Bearer <key>" is answered 401 and
\* the polling handler is not called; with no key configured no request is
\* answered 401, and where the handler is set every request is answered 200
\* and calls it.
C19_BearerGate ==
  \A i \in 1..Len(requests) :
    LET r == requests[i] IN
      /\ (apiKey # "" /\ r.authorization # <<"Bearer", apiKey>>)
           => (r.status = 401 /\ ~r.invoked)
      /\ (apiKey # "" /\ r.authorization = <<"Bearer", apiKey>>)
           => r.status # 401
      /\ apiKey = ""
           => /\ r.status # 401
              /\ pollingHandler => (r.status = 200 /\ r.invoked)

\* with key k1, a request with the scheme in lower case was turned away and
\* one with the exact header started a cycle
C19_Witness ==
  /\ apiKey = "k1"
  /\ \E i, j \in 1..Len(requests) :
       /\ requests[i].authorization = <<"bearer", "k1">>
       /\ requests[i].status = 401
       /\ requests[j].authorization = <<"Bearer", "k1">>
       /\ requests[j].status = 200
       /\ requests[j].invoked


\* the groups of the snapshot of invocation n, as sets of ids, in order
Groups(n) ==
  LET batches == chunkArray(inv[n].repositories, batchSize) IN
  [b \in 1..Len(batches) |-> {row.id : row \in Range(batches[b])}]

\* invocation n has started the check of repository r
Started(n, r) == inv[n].task[r] # "none" \/ obs[n].fetches[r] > 0

\* C21: the groups are processed one after the other: when the fetch of an
\* entity of a later group has been started, the check of every entity of
\* every earlier group (fetch, store write, event recording) has ended,
\* normally or in its catch block.
C21_GroupsSequential ==
  \A n \in Invs :
     LET groups == Groups(n) IN
     \A a \in 1..Len(groups), b \in 1..Len(groups) :
        (a < b /\ \E s \in groups[b] : Started(n, s)) =>
           \A r \in groups[a] : Checked(n, r)

\* the second group is being fetched after a first group in which one check
\* failed and the other recorded its event
C21_Witness ==
  \E n \in Invs :
     /\ inv[n].pc = "batch" /\ inv[n].i = 2
     /\ inv[n].task[3] = "fetch"
     /\ CheckFailed(n, 1)
     /\ Len(obs[n].recorded[2]) = 1


\* C22: a cycle that processes G >= 1 groups sleeps G - 1 times: there is no
\* delay before the first group, the delay after group i is taken once, when
\* every check of the group has ended and only if a group is left, and a
\* cycle that has left its batch loop has slept exactly G - 1 times.
C22_DelaysBetweenGroups ==
  \A n \in Invs :
     LET G == NumBatches(n) IN
     /\ inv[n].i = 0 => obs[n].sleeps = 0
     /\ inv[n].pc = "batch" => obs[n].sleeps = inv[n].i - 1
     /\ inv[n].pc = "sleep" =>
          /\ inv[n].i >= 1 /\ inv[n].i < G
          /\ obs[n].sleeps = inv[n].i
          /\ \A r \in Groups(n)[inv[n].i] : Checked(n, r)
     /\ (~InPoll(n) /\ inv[n].i >= 1) =>
          /\ inv[n].i = G
          /\ obs[n].sleeps = G - 1

\* one cycle of two groups has ended after one delay, another of the same
\* two groups is in its delay
C22_Witness ==
  /\ inv[1].pc = "done" /\ NumBatches(1) = 2 /\ obs[1].sleeps = 1
  /\ CheckFailed(1, 3)
  /\ inv[2].pc = "sleep" /\ NumBatches(2) = 2


\* the number of the group that holds repository r in the snapshot of
\* invocation n
GroupOf(n, r) == CHOOSE b \in 1..NumBatches(n) : r \in Groups(n)[b]

\* C23: in the accumulated events of a cycle an event of an entity of an
\* earlier group stands before every event of an entity of a later group,
\* whatever the order in which the checks inside a group settle.
C23_GroupOrderPreserved ==
  \A n \in Invs :
     LET events == inv[n].starChangeEvents IN
     \A j \in 1..Len(events), k \in 1..Len(events) :
        j < k => GroupOf(n, events[j].repositoryId) <= GroupOf(n, events[k].repositoryId)

\* the checks of the first group settled in reverse order and the event of
\* the second group still comes last
C23_Witness ==
  \E n \in Invs :
     /\ Len(inv[n].starChangeEvents) = 3
     /\ inv[n].starChangeEvents[1].repositoryId = 2
     /\ inv[n].starChangeEvents[2].repositoryId = 1
     /\ inv[n].starChangeEvents[3].repositoryId = 3


\* C24: every recorded Delta Event has its new value strictly above its
\* previous value, with magnitude new - previous >= 1, and the history only
\* grows at its end: a step leaves every recorded row as it is, in its place.
C24_EventsIncreaseAppendOnly ==
  /\ [](\A k \in 1..Len(star_events) :
          /\ star_events[k].stars_count > star_events[k].previous_stars_count
          /\ star_events[k].stars_gained =
               star_events[k].stars_count - star_events[k].previous_stars_count
          /\ star_events[k].stars_gained >= 1)
  /\ [][/\ Len(star_events') >= Len(star_events)
        /\ SubSeq(star_events', 1, Len(star_events)) = star_events]_vars

\* two cycles have recorded events, one for a rise by two after a drop and
\* one for a rise by one
C24_Witness ==
  /\ Len(star_events) >= 2
  /\ \E j \in 1..Len(star_events), k \in 1..Len(star_events) :
       /\ star_events[j].previous_stars_count = 0 /\ star_events[j].stars_gained = 2
       /\ star_events[k].previous_stars_count = 1 /\ star_events[k].stars_gained = 1


\* C25: nothing is retried within a cycle: no entity is fetched, written or
\* recorded twice by one cycle, no entity outside the snapshot is fetched,
\* and a cycle that passed the quota gate and has left its batch loop has
\* fetched every entity of its snapshot exactly once, whether the check of
\* the entity failed or not.
C25_NoRetry ==
  \A n \in Invs :
     /\ \A r \in Repos :
          /\ obs[n].fetches[r] <= 1
          /\ Len(obs[n].writes[r]) <= 1
          /\ Len(obs[n].recorded[r]) <= 1
          /\ r \notin Snapshot(n) => obs[n].fetches[r] = 0
     /\ (~InPoll(n) /\ inv[n].i >= 1) =>
          \A r \in Snapshot(n) : obs[n].fetches[r] = 1 /\ Checked(n, r)

\* a cycle of three entities has ended; the fetch of one entity of its first
\* group failed
C25_Witness ==
  \E n \in Invs, r \in Repos :
     /\ inv[n].pc = "done"
     /\ Snapshot(n) = Repos
     /\ obs[n].error[r] = "getRepositoryStarCount"
     /\ r \in Groups(n)[1]
     /\ \A s \in Repos : obs[n].fetches[s] = 1


\* invocation 2 ran a whole cycle without failure after invocation 1 had
\* ended
NextCycleClean ==
  /\ inv[1].pc = "done" /\ inv[2].pc = "done"
  /\ obs[2].entered /\ ~obs[2].overlapped /\ ~obs[2].failed
  /\ inv[2].i >= 1

\* C26 (as claimed): when the check of an entity failed in one cycle (at the
\* fetch, the store write or the event recording) and so left no Delta Event
\* for a rise of its value, the next cycle, run without failure and fetching
\* a value above the one stored before the failed check (the same value, when
\* the failed check had fetched one), records one Delta Event for the entity
\* and every subscriber receives its notification.
C26_RecoveredNextCycle ==
  \A r \in Repos :
     (/\ NextCycleClean
      /\ r \in Snapshot(1) /\ r \in Snapshot(2)
      /\ CheckFailed(1, r)
      /\ Fetched(1, r) => inv[1].currentStars[r] = inv[2].currentStars[r]
      /\ inv[2].currentStars[r] > StoredValue(1, r)) =>
        /\ Len(obs[2].recorded[r]) = 1
        /\ obs[2].recorded[r][1].stars_count = inv[2].currentStars[r]
        /\ \A c \in getSubscribersForRepository(chat_repositories, r) :
             \E m \in obs[2].received : m.chat = c /\ m.repositoryId = r


\* C27 (as claimed): no step of a command handler (/start, /add, /remove or a
\* plain message) changes the stored value of an entity that is tracked.
C27_HandlersKeepStoredValue ==
  [][\A r \in DOMAIN repositories :
        /\ r \in DOMAIN repositories'
        /\ repositories'[r].stars_count = repositories[r].stars_count]_vars


\* the repository of the event at position k of invocation n
EventRepo(n, k) == inv[n].starChangeEvents[k].repositoryId

\* the sends of invocation n for repository r that have not settled
InFlight(n, r) ==
  {c \in Chats : /\ obs[n].attempts[<<c, r>>] > 0
                 /\ <<c, r>> \notin obs[n].sendFailed
                 /\ \A m \in obs[n].received : ~(m.chat = c /\ m.repositoryId = r)}

\* C28: the fan-out takes the events one after the other in list order:
\* while it handles the event at position k, every send of the events before
\* it has settled and neither the lookup nor a send of an event after it has
\* started; the sends in flight are those of the event at k; the position
\* moves forward by one at a time; and after the fan-out no send is in flight.
C28_EventsSequential ==
  /\ [](\A n \in Invs :
          /\ InFanout(n) =>
               /\ inv[n].eventNo \in 1..Len(inv[n].starChangeEvents)
               /\ \A k \in 1..Len(inv[n].starChangeEvents) :
                    /\ k < inv[n].eventNo => InFlight(n, EventRepo(n, k)) = {}
                    /\ k > inv[n].eventNo =>
                         /\ obs[n].lookedUp[EventRepo(n, k)] = <<>>
                         /\ \A c \in Chats : obs[n].attempts[<<c, EventRepo(n, k)>>] = 0
               /\ InFlight(n, EventRepo(n, inv[n].eventNo)) =
                    (IF inv[n].pc = "send" THEN inv[n].sending ELSE {})
          /\ inv[n].pc = "done" => \A r \in Repos : InFlight(n, r) = {})
  /\ [][\A n \in Invs :
          inv'[n].eventNo # inv[n].eventNo => inv'[n].eventNo = inv[n].eventNo + 1]_vars

\* two sends of the first event are in flight together while the second
\* event waits
C28_Witness ==
  \E n \in Invs :
     /\ inv[n].pc = "send" /\ inv[n].eventNo = 1
     /\ Len(inv[n].starChangeEvents) >= 2
     /\ Cardinality(inv[n].sending) = 2


\* handling the event at position j of invocation n met a failure: its
\* lookup threw, or one of its sends did
FanoutFailedAt(n, j) ==
  \/ obs[n].lookedUp[EventRepo(n, j)] = <<>>
  \/ \E c \in Chats : <<c, EventRepo(n, j)>> \in obs[n].sendFailed

\* the subscribers of the event at position k of invocation n were resolved
\* and each of them, and nobody else, got one delivery attempt
ResolvedAndAttempted(n, k) ==
  /\ Len(obs[n].lookedUp[EventRepo(n, k)]) = 1
  /\ obs[n].lookedUp[EventRepo(n, k)][1] =
       getSubscribersForRepository(chat_repositories, EventRepo(n, k))
  /\ \A c \in Chats :
       obs[n].attempts[<<c, EventRepo(n, k)>>] =
         (IF c \in obs[n].lookedUp[EventRepo(n, k)][1] THEN 1 ELSE 0)

\* C29: a failure while one event is fanned out (its lookup or one of its
\* sends throws) does not end the fan-out: the loop reaches the last event
\* and the cycle ends without error; every event whose own lookup returned
\* has each of its subscribers attempted once; and when the failure is the
\* only one of the run, every later event has its subscribers resolved and
\* attempted.
C29_EventFailureIsolated ==
  \A n \in Invs :
     (inv[n].pc = "done" /\ Len(inv[n].starChangeEvents) > 0) =>
        /\ inv[n].eventNo = Len(inv[n].starChangeEvents)
        /\ ~obs[n].threw
        /\ \A k \in 1..Len(inv[n].starChangeEvents) :
             /\ obs[n].lookedUp[EventRepo(n, k)] # <<>> => ResolvedAndAttempted(n, k)
             /\ \A j \in 1..(k - 1) :
                  (FanoutFailedAt(n, j) /\ faults <= 1) => ResolvedAndAttempted(n, k)

\* the lookup of the first event threw and the subscriber of the second
\* event received its notification
C29_Witness ==
  \E n \in Invs :
     /\ inv[n].pc = "done"
     /\ Len(inv[n].starChangeEvents) >= 2
     /\ obs[n].lookedUp[EventRepo(n, 1)] = <<>>
     /\ \E m \in obs[n].received : m.repositoryId = EventRepo(n, 2)


\* C30: the quota gate lets a cycle pass exactly when the remaining budget
\* is at least the number of tracked entities: with remaining >= count the
\* first group is fetched at once and, when the batch loop is left, every
\* entity of the snapshot has been fetched; with remaining < count nothing
\* is fetched.  Equality passes.
C30_QuotaBoundary ==
  \A n \in Invs : obs[n].remaining >= 0 =>
     LET count == Len(inv[n].repositories) IN
     /\ obs[n].remaining >= count =>
          /\ inv[n].i >= 1
          /\ \A r \in Groups(n)[1] : obs[n].fetches[r] = 1
          /\ ~InPoll(n) => \A r \in Snapshot(n) : obs[n].fetches[r] = 1
     /\ obs[n].remaining < count =>
          /\ inv[n].i = 0
          /\ \A r \in Repos : obs[n].fetches[r] = 0

\* a cycle of three entities with a remaining budget of exactly three has
\* fetched all of them
C30_Witness ==
  \E n \in Invs :
     /\ obs[n].remaining = 3 /\ Len(inv[n].repositories) = 3
     /\ inv[n].pc = "done"
     /\ \A r \in Repos : obs[n].fetches[r] = 1 /\ Fetched(n, r)


\* the calls of getRepositoryStarCount that have not returned
FetchesInFlight == {p \in Invs \X Repos : inv[p[1]].task[p[2]] = "fetch"}

\* C31: at every instant, whatever the interleaving of timer ticks and
\* on-demand triggers, at most batchSize fetches are in flight, and they are
\* fetches of one group of one invocation.
C31_BurstBounded ==
  /\ Cardinality(FetchesInFlight) <= batchSize
  /\ \A p \in FetchesInFlight, q \in FetchesInFlight :
       /\ p[1] = q[1]
       /\ inv[p[1]].pc = "batch"
       /\ p[2] \in Groups(p[1])[inv[p[1]].i]

\* a full group of the second invocation is being fetched while the first
\* invocation is still sending its notifications
C31_Witness ==
  /\ inv[1].pc = "send"
  /\ inv[2].pc = "batch"
  /\ Cardinality(FetchesInFlight) = batchSize


\* a collaborator call of the check of a repository by invocation n has not
\* returned
CheckInFlight(n) == \E r \in Repos : inv[n].task[r] \in {"fetch", "update", "event"}

\* C32: at most one invocation is between setting and clearing the flag;
\* the flag (getPollingStatus().isCurrentlyPolling) is set exactly when one
\* is; the checks in flight are those of that invocation; and a step that
\* fetches, writes or records for one invocation is taken while no other
\* invocation has a check in flight.
C32_PollPhaseExclusive ==
  /\ [](/\ \A m \in Invs, n \in Invs : (InPoll(m) /\ InPoll(n)) => m = n
        /\ isPolling <=> \E n \in Invs : InPoll(n)
        /\ \A n \in Invs : CheckInFlight(n) => inv[n].pc = "batch")
  /\ [][\A n \in Invs :
          (\/ obs'[n].fetches # obs[n].fetches
           \/ obs'[n].writes # obs[n].writes
           \/ obs'[n].recorded # obs[n].recorded) =>
             \A m \in Invs \ {n} : ~CheckInFlight(m) /\ ~InPoll(m)]_vars

\* the second invocation found the flag set and did nothing while the first
\* one has a store write in flight
C32_Witness ==
  /\ obs[2].skipped
  /\ isPolling
  /\ inv[1].pc = "batch"
  /\ \E r \in Repos : inv[1].task[r] = "update"


\* C33: when every awaited call returns or throws in the end, every
\* invocation that has started resolves and a flag that is set is cleared:
\* a run has finitely many invocations, and from some point on each of them
\* has either not been started or has resolved, with the flag cleared.
C33_CycleTerminates ==
  <>[](/\ \A n \in Invs : inv[n].pc \in {"idle", "done"}
       /\ ~isPolling)

\* both invocations have resolved, one after a failure, and the flag is
\* cleared
C33_Witness ==
  /\ inv[1].pc = "done" /\ obs[1].entered /\ obs[1].failed
  /\ inv[2].pc = "done" /\ obs[2].entered
  /\ inv[2].i = 2
  /\ ~isPolling


\* the sum of the magnitudes of the rows for repository r
RECURSIVE SumGained(_, _)
SumGained(rows, r) ==
  IF Len(rows) = 0 THEN 0
  ELSE (IF Head(rows).repository_id = r THEN Head(rows).stars_gained ELSE 0)
       + SumGained(Tail(rows), r)

\* C34 (as claimed): with a count on GitHub that never goes down, the
\* magnitudes of all Delta Events recorded for an entity add up to at most
\* its count on GitHub minus its initially stored count (1), under every
\* interleaving of polling cycles and /add commands for the entity.
C34_NoStarTwice ==
  \A r \in Repos : github[r] >= 0 => SumGained(star_events, r) <= github[r] - 1


\* invocation 2 entered its cycle after invocation 1 had completed a cycle in
\* which nothing failed
AfterCleanCycle ==
  /\ inv[1].pc = "done" /\ obs[1].entered /\ ~obs[1].failed /\ ~obs[1].threw
  /\ obs[2].entered /\ ~obs[2].overlapped

Records(n, r) == Len(obs'[n].recorded[r]) > Len(obs[n].recorded[r])

C37_OneTimer ==
  /\ [](/\ runningTasks <= 1
        /\ getPollingStatus.isScheduled <=> runningTasks = 1)
  /\ [][(startScheduledPolling /\ runningTasks >= 1) => UNCHANGED vars]_vars
  /\ [][(stopScheduledPolling /\ runningTasks = 0) => UNCHANGED vars]_vars

\* the timer is armed and has fired twice
C37_Witness ==
  /\ runningTasks = 1
  /\ getPollingStatus.isScheduled
  /\ gap > 0


\* the repositories not archived
Active == {r \in Repos : ~repositories[r].is_archived}

\* C38: an archived entity is not in the snapshot of a cycle: the cycle
\* never fetches it, never writes it, records no Delta Event and sends no
\* notification for it, and the quota gate asks for as many remaining calls
\* as there are entities not archived.
C38_ArchivedExcluded ==
  \A n \in Invs :
     /\ \A r \in Repos \ Active :
          /\ inv[n].pc \notin {"idle", "list"} => r \notin Snapshot(n)
          /\ ~Started(n, r)
          /\ ~Fetched(n, r)
          /\ obs[n].fetches[r] = 0
          /\ obs[n].writes[r] = <<>>
          /\ obs[n].lookedUp[r] = <<>>
          /\ NoDeltaEvent(n, r)
          /\ NoNotification(n, r)
     /\ obs[n].remaining >= 0 =>
          (inv[n].i >= 1 <=> obs[n].remaining >= Cardinality(Active))

\* a cycle ran to its end with one entity archived and exactly as many
\* remaining calls as there are entities not archived
C38_Witness ==
  \E n \in Invs :
     /\ inv[n].pc = "done"
     /\ Cardinality(Active) = NumRepos - 1
     /\ obs[n].remaining = Cardinality(Active)
     /\ \A r \in Active : obs[n].fetches[r] = 1
     /\ \E r \in Active : Len(obs[n].recorded[r]) = 1
====
